---- MODULE Spec2Model ----
(***************************************************************************)
(* rg3d-sound-sdl: the bridge between SDL's pull-model audio device and    *)
(* the rg3d_sound render engine (src/src/lib.rs).                          *)
(*                                                                         *)
(* Spec      the open() call of the control thread, the devices' audio     *)
(*           threads running Callback::callback, and the control thread's  *)
(*           use of the engine handle.                                     *)
(* SpecConv  to_tuple_slice applied directly to caller-owned slices.       *)
(***************************************************************************)
EXTENDS Integers, Sequences, FiniteSets, TLC

VARIABLES
  debugAssertions,  \* build profile: is debug_assert! compiled in (lib.rs:151)
  renderBufferLen,  \* SoundEngine::render_buffer_len() of the linked engine
  openpc,           \* position of the control thread inside open()
  desired,          \* the AudioSpecDesired built at lib.rs:65
  attempts,         \* device-open attempts made on the subsystem
  sdlResult,        \* what open_playback answered
  obtained,         \* the AudioSpec handed to the closure at lib.rs:70
  panicMsg,         \* message of the panic that ended open(), "" if none
  openResult,       \* the Result open() returned
  engineCreated,    \* SoundEngine::without_device() has run (lib.rs:66)
  callerHandle,     \* the caller holds the Arc returned by open()
  cbBuilt,          \* per device: its Callback has been constructed
  devStatus,        \* per device: "none" | "paused" | "playing" | "closed"
  everResumed,      \* per device: resume() has been called at least once
  cbpc,             \* per device: position of its audio thread in callback()
  buf,              \* per device: the raw sample buffer of the invocation
  view,             \* per device: the &mut [(f32, f32)] made at lib.rs:135
  invocations,      \* per device: callback invocations started
  returned,         \* per device: callback invocations that returned
  renders,          \* per device: engine.render calls made
  acquisitions,     \* per device: engine lock acquisitions (guards obtained)
  lockHolder,       \* owner of the engine Mutex: "free" | "ctl" | a device
  poisoned,         \* the engine Mutex is poisoned
  contexts,         \* sound contexts attached to the engine
  ctlpc,            \* control thread after open: "idle" | "holding" | "panicked"
  convBuf,          \* SpecConv: the caller's slice storage
  convPre,          \* SpecConv: the storage as it was before the last write
  convView,         \* SpecConv: the view returned by to_tuple_slice
  convState,        \* SpecConv: "raw" | "view" | "written" | "panicked"
  convLast,         \* SpecConv: the last write made through the view
  strong,           \* strong count of the Arc made at lib.rs:66, 0 once released
  locals,           \* open(): the engines `engine` and `callback_engine` refer to
  callerEngine,     \* the engine the handle returned by open() refers to, 0 if none
  cbEngine,         \* per device: the engine its Callback holds, 0 if none
  cbHandle,         \* per device: its Callback is alive and holds its Arc
  pending           \* per device: the pause()/drop the caller is inside: "none" | "pause" | "close"

vars == <<debugAssertions, renderBufferLen, openpc, desired, attempts, sdlResult,
          obtained, panicMsg, openResult, engineCreated, callerHandle, cbBuilt,
          devStatus, everResumed, cbpc, buf, view, invocations, returned, renders,
          acquisitions, lockHolder, poisoned, contexts, ctlpc,
          convBuf, convPre, convView, convState, convLast,
          strong, locals, callerEngine, cbEngine, cbHandle, pending>>

openVars == <<openpc, desired, attempts, sdlResult, obtained, panicMsg, openResult,
              engineCreated>>
audioVars == <<cbpc, buf, view, invocations, returned, renders, acquisitions>>
convVars == <<convBuf, convPre, convView, convState, convLast>>
buildVars == <<debugAssertions, renderBufferLen>>
handleVars == <<strong, locals, callerEngine, cbEngine, cbHandle>>

----------------------------------------------------------------------------
(* Bounds of the model                                                     *)

MaxBufLen == 4        \* longest raw sample buffer that is written out
MaxInvocations == 2   \* callback invocations per device
MaxContexts == 1      \* contexts the control thread attaches

----------------------------------------------------------------------------
(* Program constants                                                       *)

SAMPLE_RATE == 44100  \* rg3d_sound::context::SAMPLE_RATE, a u32
U16_MAX == 65535      \* u16::MAX, the largest AudioSpecDesired::samples
I32_MAX == 2147483647 \* i32::MAX

\* The two Callbacks of the model: the one open() builds, and one the caller
\* builds with Callback::new on a clone of the returned engine handle.
Devices == {"opened", "attached"}

\* Values of render_buffer_len() the bridge may be linked against.
RenderBufferLens == {1, 2, U16_MAX, U16_MAX + 1}

\* What the subsystem may report as obtained.
ObtainedFreqs ==
  {SAMPLE_RATE, 48000, -SAMPLE_RATE, 0, -1, I32_MAX, -I32_MAX - 1,
   SAMPLE_RATE + U16_MAX + 1,     \* the same low 16 bits as SAMPLE_RATE
   SAMPLE_RATE - I32_MAX - 1}     \* SAMPLE_RATE with the sign bit set
ObtainedChannels == {1, 2}
ObtainedFormats == {"f32_sys", "s16_sys"}
ObtainedSamples == {1, 2, U16_MAX}
ObtainedSpecs == [freq : ObtainedFreqs, channels : ObtainedChannels,
                  format : ObtainedFormats, samples : ObtainedSamples]
SdlErrors == {"No such device", "Audio device busy"}

\* Sample values the engine mixes, and the ones a caller writes.
SampleVals == {0, 1, 2}

----------------------------------------------------------------------------
(* Integer conversions, at their width                                     *)

\* A u32 is kept as its two 16-bit halves <<hi, lo>>.
U32(hi, lo) == <<hi, lo>>

\* `x as u32` of an i32 x: two's complement, no range check.
I32AsU32_Low16(x) == U32(0, x % 65536)

I32AsU32(x) ==
  IF x >= 0
    THEN U32(x \div 65536, x % 65536)
    ELSE LET y == x + I32_MAX + 1
         IN  U32(32768 + (y \div 65536), y % 65536)

\* `x as i32` of a u32 x: two's complement, no range check.
U32AsI32(x) ==
  IF x[1] < 32768
    THEN x[1] * 65536 + x[2]
    ELSE ((x[1] - 32768) * 65536 + x[2]) - I32_MAX - 1

\* SAMPLE_RATE as the u32 it is declared as.
SampleRateU32 == U32(SAMPLE_RATE \div 65536, SAMPLE_RATE % 65536)

\* usize -> u16 by TryFrom: Ok only when the value fits.
TryIntoU16_Wrapping(n) == [ok |-> TRUE, val |-> n % (U16_MAX + 1)]

TryIntoU16(n) ==
  IF n <= U16_MAX THEN [ok |-> TRUE, val |-> n] ELSE [ok |-> FALSE, val |-> 0]

\* Option<T>: Some(v) is <<v>>, None is <<>>.
Some(v) == <<v>>
None == <<>>

----------------------------------------------------------------------------
(* desired_spec, lib.rs:106-115                                            *)

\* The sample format SDL is asked for is that of Callback::Channel = f32.
ChannelFormat == "f32_sys"

\* AudioFormat::f32_sys()
F32Sys == "f32_sys"

DesiredSpecFields_Mono(samples) ==
  [freq |-> Some(U32AsI32(SampleRateU32)), channels |-> Some(1),
   samples |-> Some(samples)]

\* The struct literal of lib.rs:110-114.
DesiredSpecFields(samples) ==
  [freq |-> Some(U32AsI32(SampleRateU32)), channels |-> Some(2),
   samples |-> Some(samples)]

\* desired_spec(): panics ("Audio buffer too large") when the length does not fit.
desired_spec(len) ==
  LET samples == TryIntoU16(len)
  IN  IF samples.ok
        THEN [panic |-> FALSE, spec |-> DesiredSpecFields(samples.val)]
        ELSE [panic |-> TRUE,
              spec |-> [freq |-> None, channels |-> None, samples |-> None]]

NoDesired == [freq |-> None, channels |-> None, samples |-> None]
NoObtained == [freq |-> 0, channels |-> 0, format |-> "none", samples |-> 0]
NoResult == [tag |-> "None", err |-> "", engine |-> FALSE, device |-> FALSE]

----------------------------------------------------------------------------
(* The closure given to open_playback, lib.rs:70-88                        *)

\* The four assert_eq! of lib.rs:71-86, in order; "" when all pass.
ValidationFailure_NoChannels(o) ==
  IF I32AsU32(o.freq) # SampleRateU32 THEN "Invalid sample rate"
  ELSE IF o.format # F32Sys THEN "Invalid sample format"
  ELSE IF o.samples # renderBufferLen THEN "Invalid buffer size"
  ELSE ""

ValidationFailure_ScalarLen(o) ==
  IF I32AsU32(o.freq) # SampleRateU32 THEN "Invalid sample rate"
  ELSE IF o.channels # 2 THEN "Invalid number of channels"
  ELSE IF o.format # F32Sys THEN "Invalid sample format"
  ELSE IF o.samples # 2 * renderBufferLen THEN "Invalid buffer size"
  ELSE ""

ValidationFailure(o) ==
  IF I32AsU32(o.freq) # SampleRateU32 THEN "Invalid sample rate"
  ELSE IF o.channels # 2 THEN "Invalid number of channels"
  ELSE IF o.format # F32Sys THEN "Invalid sample format"
  ELSE IF o.samples # renderBufferLen THEN "Invalid buffer size"
  ELSE ""

\* Result::map of lib.rs:89: an Ok device is paired with the engine handle,
\* an Err passes through as it is.
MapResult_Reworded(r) ==
  IF r.tag = "Ok"
    THEN [tag |-> "Ok", err |-> "", engine |-> TRUE, device |-> TRUE]
    ELSE [tag |-> "Err", err |-> "Failed to open audio device",
          engine |-> FALSE, device |-> FALSE]

MapResult(r) ==
  IF r.tag = "Ok"
    THEN [tag |-> "Ok", err |-> "", engine |-> TRUE, device |-> TRUE]
    ELSE [tag |-> "Err", err |-> r.err, engine |-> FALSE, device |-> FALSE]

----------------------------------------------------------------------------
(* The engine handle, Arc<Mutex<SoundEngine>>, lib.rs:66-67                *)

\* SoundEngine::without_device(): a handle to the one engine open() creates.
WithoutDevice == 1

\* Arc::clone(&engine): another handle to the same engine.
ArcClone_Fresh(h) == h + 1

ArcClone(h) == h

\* The strong count once a clone has been made.
StrongAfterClone_Borrowed(n) == n

StrongAfterClone(n) == n + 1

\* The engine is released when its last handle goes.
EngineFreed == engineCreated /\ strong = 0

----------------------------------------------------------------------------
(* open, lib.rs:61-90                                                      *)

\* lib.rs:65  let desired = desired_spec();
OpenDesiredSpec ==
  /\ openpc = "idle"
  /\ LET d == desired_spec(renderBufferLen)
     IN  IF d.panic
           THEN /\ openpc' = "panicked"
                /\ panicMsg' = "Audio buffer too large"
                /\ UNCHANGED desired
           ELSE /\ openpc' = "desired"
                /\ desired' = d.spec
                /\ UNCHANGED panicMsg
  /\ UNCHANGED <<attempts, sdlResult, obtained, openResult, engineCreated>>
  /\ UNCHANGED <<buildVars, audioVars, convVars, callerHandle, cbBuilt, devStatus,
                 everResumed, lockHolder, poisoned, contexts, ctlpc>>
  /\ UNCHANGED <<handleVars, pending>>

\* lib.rs:66-67  the engine and the clone of its handle kept for the Callback.
OpenCreateEngine ==
  /\ openpc = "desired"
  /\ openpc' = "engine"
  /\ engineCreated' = TRUE
  /\ UNCHANGED <<desired, attempts, sdlResult, obtained, panicMsg, openResult>>
  /\ UNCHANGED <<buildVars, audioVars, convVars, callerHandle, cbBuilt, devStatus,
                 everResumed, lockHolder, poisoned, contexts, ctlpc>>
  /\ LET engine == WithoutDevice
     IN  /\ locals' = [engine |-> engine, callback_engine |-> ArcClone(engine)]
         /\ strong' = StrongAfterClone(1)
  /\ UNCHANGED <<callerEngine, cbEngine, cbHandle, pending>>

\* lib.rs:69-70  subsystem.open_playback(device, &desired, ...): the subsystem
\* either refuses, or opens the device (paused) and reports what it obtained.
OpenPlaybackErr(e) ==
  /\ openpc = "engine"
  /\ attempts' = attempts + 1
  /\ sdlResult' = [tag |-> "Err", err |-> e]
  /\ openpc' = "sdl_err"
  /\ UNCHANGED <<desired, obtained, panicMsg, openResult, engineCreated>>
  /\ UNCHANGED <<buildVars, audioVars, convVars, callerHandle, cbBuilt, devStatus,
                 everResumed, lockHolder, poisoned, contexts, ctlpc>>
  /\ strong' = strong - 1
  /\ UNCHANGED <<locals, callerEngine, cbEngine, cbHandle, pending>>

OpenPlaybackOk(o) ==
  /\ openpc = "engine"
  /\ attempts' = attempts + 1
  /\ sdlResult' = [tag |-> "Ok", err |-> ""]
  /\ obtained' = o
  /\ devStatus' = [devStatus EXCEPT !["opened"] = "paused"]
  /\ openpc' = "closure"
  /\ UNCHANGED <<desired, panicMsg, openResult, engineCreated>>
  /\ UNCHANGED <<buildVars, audioVars, convVars, callerHandle, cbBuilt,
                 everResumed, lockHolder, poisoned, contexts, ctlpc>>
  /\ UNCHANGED <<handleVars, pending>>

\* lib.rs:70-88  the closure: the four assertions, then Callback::new.
OpenClosure ==
  /\ openpc = "closure"
  /\ LET failure == ValidationFailure(obtained)
     IN  IF failure # ""
           THEN /\ openpc' = "panicked"
                /\ panicMsg' = failure
                /\ strong' = 0
                /\ UNCHANGED <<cbBuilt, cbEngine, cbHandle>>
           ELSE /\ openpc' = "built"
                /\ cbBuilt' = [cbBuilt EXCEPT !["opened"] = TRUE]
                /\ cbEngine' = [cbEngine EXCEPT !["opened"] = locals.callback_engine]
                /\ cbHandle' = [cbHandle EXCEPT !["opened"] = TRUE]
                /\ UNCHANGED strong
                /\ UNCHANGED panicMsg
  /\ UNCHANGED <<desired, attempts, sdlResult, obtained, openResult, engineCreated>>
  /\ UNCHANGED <<buildVars, audioVars, convVars, callerHandle, devStatus,
                 everResumed, lockHolder, poisoned, contexts, ctlpc>>
  /\ UNCHANGED <<locals, callerEngine, pending>>

\* lib.rs:89  .map(|dev| (engine, dev)), and the return of open.
OpenReturn_Resumed ==
  /\ openpc \in {"built", "sdl_err"}
  /\ openResult' = MapResult(sdlResult)
  /\ callerHandle' = (sdlResult.tag = "Ok")
  /\ openpc' = "returned"
  /\ devStatus' = [devStatus EXCEPT !["opened"] =
                     IF sdlResult.tag = "Ok" THEN "playing" ELSE @]
  /\ UNCHANGED <<desired, attempts, sdlResult, obtained, panicMsg, engineCreated>>
  /\ UNCHANGED <<buildVars, audioVars, convVars, cbBuilt,
                 everResumed, lockHolder, poisoned, contexts, ctlpc>>
  /\ IF sdlResult.tag = "Ok"
       THEN callerEngine' = locals.engine /\ UNCHANGED strong
       ELSE strong' = strong - 1 /\ UNCHANGED callerEngine
  /\ UNCHANGED <<locals, cbEngine, cbHandle, pending>>

OpenReturn ==
  /\ openpc \in {"built", "sdl_err"}
  /\ openResult' = MapResult(sdlResult)
  /\ callerHandle' = (sdlResult.tag = "Ok")
  /\ openpc' = "returned"
  /\ UNCHANGED <<desired, attempts, sdlResult, obtained, panicMsg, engineCreated>>
  /\ UNCHANGED <<buildVars, audioVars, convVars, cbBuilt, devStatus,
                 everResumed, lockHolder, poisoned, contexts, ctlpc>>
  /\ IF sdlResult.tag = "Ok"
       THEN callerEngine' = locals.engine /\ UNCHANGED strong
       ELSE strong' = strong - 1 /\ UNCHANGED callerEngine
  /\ UNCHANGED <<locals, cbEngine, cbHandle, pending>>

\* open() has handed the caller its engine handle and its device.
Opened == openpc = "returned" /\ openResult.tag = "Ok"

----------------------------------------------------------------------------
(* to_tuple_slice, lib.rs:148-153                                          *)

\* debug_assert!(len % 2 == 0): checked only when debug assertions are compiled in.
OddLengthPanics(len) == debugAssertions /\ len % 2 # 0

\* from_raw_parts_mut(ptr.cast(), len / 2): a view of len / 2 pairs that starts
\* where the slice starts.
TupleSliceLen(len) == len \div 2

to_tuple_slice(len) ==
  IF OddLengthPanics(len)
    THEN [panic |-> TRUE, len |-> 0]
    ELSE [panic |-> FALSE, len |-> TupleSliceLen(len)]

\* Element i (from 0) of the view lies over the scalars 2i and 2i+1 (from 0) of
\* the slice: (f32, f32) has the size and alignment of [f32; 2] (lib.rs:155-156).
\* Sequences count from 1.
TupleGet(raw, i) == <<raw[2 * i + 1], raw[2 * i + 2]>>

TupleSet_Swapped(raw, i, p) ==
  [raw EXCEPT ![2 * i + 1] = p[2], ![2 * i + 2] = p[1]]

TupleSet(raw, i, p) ==
  [raw EXCEPT ![2 * i + 1] = p[1], ![2 * i + 2] = p[2]]

----------------------------------------------------------------------------
(* Callback::callback, lib.rs:134-138                                      *)

\* What a buffer holds when the subsystem delivers it: values the engine never
\* produces, a different one at every index.
Stale(n) == [i \in 1..n |-> 100 + i]

\* The frame the engine mixes: silence without contexts.
EngineFrame == IF contexts = 0 THEN <<0, 0>> ELSE <<contexts, 2 * contexts>>

\* The frame mixed by the engine handle h refers to: the contexts are those of
\* the engine the caller's handle refers to; no other engine has any.
EngineFrameOf(h) == IF h = callerEngine THEN EngineFrame ELSE <<0, 0>>

\* engine.render(buf): every frame of the view is overwritten, in order.
RECURSIVE RenderFrom(_, _, _, _)
RenderFrom(raw, i, n, frame) ==
  IF i >= n THEN raw ELSE RenderFrom(TupleSet(raw, i, frame), i + 1, n, frame)

Render(raw, v, frame) == RenderFrom(raw, 0, v.len, frame)

\* The length of the buffer the subsystem delivers to a device's callback: for
\* the device of open() it is channels * samples of the obtained spec; the
\* caller's own device may be of any configuration.
Delivered(d, n) ==
  IF d = "opened" THEN n = obtained.channels * obtained.samples ELSE TRUE

\* lib.rs:134-135  the subsystem calls callback(buf); the buffer is converted.
CallbackEnter_LockFirst(d, n) ==
  /\ pending[d] # "close"
  /\ cbBuilt[d]
  /\ devStatus[d] = "playing"
  /\ cbpc[d] = "idle"
  /\ invocations[d] < MaxInvocations
  /\ Delivered(d, n)
  /\ lockHolder = "free"
  /\ ~poisoned
  /\ invocations' = [invocations EXCEPT ![d] = @ + 1]
  /\ buf' = [buf EXCEPT ![d] = Stale(n)]
  /\ acquisitions' = [acquisitions EXCEPT ![d] = @ + 1]
  /\ LET t == to_tuple_slice(n)
     IN  IF t.panic
           THEN /\ cbpc' = [cbpc EXCEPT ![d] = "panicked"]
                /\ poisoned' = TRUE
                /\ UNCHANGED <<view, lockHolder>>
           ELSE /\ cbpc' = [cbpc EXCEPT ![d] = "locked"]
                /\ lockHolder' = d
                /\ view' = [view EXCEPT ![d] = [len |-> t.len]]
                /\ UNCHANGED poisoned
  /\ UNCHANGED <<returned, renders>>
  /\ UNCHANGED <<buildVars, openVars, convVars, callerHandle, cbBuilt, devStatus,
                 everResumed, contexts, ctlpc>>
  /\ UNCHANGED <<handleVars, pending>>

CallbackEnter(d, n) ==
  /\ pending[d] # "close"
  /\ cbBuilt[d]
  /\ devStatus[d] = "playing"
  /\ cbpc[d] = "idle"
  /\ invocations[d] < MaxInvocations
  /\ Delivered(d, n)
  /\ invocations' = [invocations EXCEPT ![d] = @ + 1]
  /\ buf' = [buf EXCEPT ![d] = Stale(n)]
  /\ LET t == to_tuple_slice(n)
     IN  IF t.panic
           THEN /\ cbpc' = [cbpc EXCEPT ![d] = "panicked"]
                /\ UNCHANGED view
           ELSE /\ cbpc' = [cbpc EXCEPT ![d] = "converted"]
                /\ view' = [view EXCEPT ![d] = [len |-> t.len]]
  /\ UNCHANGED <<returned, renders, acquisitions>>
  /\ UNCHANGED <<buildVars, openVars, convVars, callerHandle, cbBuilt, devStatus,
                 everResumed, lockHolder, poisoned, contexts, ctlpc>>
  /\ UNCHANGED <<handleVars, pending>>

\* lib.rs:136  self.engine.lock().unwrap(): waits for the Mutex; a poisoned
\* Mutex makes unwrap panic, and the guard inside the error is dropped.
CallbackLock_NoWait(d) ==
  /\ cbpc[d] = "converted"
  /\ IF poisoned
       THEN /\ cbpc' = [cbpc EXCEPT ![d] = "panicked"]
            /\ UNCHANGED <<lockHolder, acquisitions>>
       ELSE /\ cbpc' = [cbpc EXCEPT ![d] = "locked"]
            /\ lockHolder' = d
            /\ acquisitions' = [acquisitions EXCEPT ![d] = @ + 1]
  /\ UNCHANGED <<buf, view, invocations, returned, renders>>
  /\ UNCHANGED <<buildVars, openVars, convVars, callerHandle, cbBuilt, devStatus,
                 everResumed, poisoned, contexts, ctlpc>>
  /\ UNCHANGED <<handleVars, pending>>

CallbackLock_IgnorePoison(d) ==
  /\ cbpc[d] = "converted"
  /\ lockHolder = "free"
  /\ cbpc' = [cbpc EXCEPT ![d] = "locked"]
  /\ lockHolder' = d
  /\ acquisitions' = [acquisitions EXCEPT ![d] = @ + 1]
  /\ UNCHANGED <<buf, view, invocations, returned, renders>>
  /\ UNCHANGED <<buildVars, openVars, convVars, callerHandle, cbBuilt, devStatus,
                 everResumed, poisoned, contexts, ctlpc>>
  /\ UNCHANGED <<handleVars, pending>>

CallbackLock(d) ==
  /\ cbpc[d] = "converted"
  /\ lockHolder = "free"
  /\ IF poisoned
       THEN /\ cbpc' = [cbpc EXCEPT ![d] = "panicked"]
            /\ UNCHANGED <<lockHolder, acquisitions>>
       ELSE /\ cbpc' = [cbpc EXCEPT ![d] = "locked"]
            /\ lockHolder' = d
            /\ acquisitions' = [acquisitions EXCEPT ![d] = @ + 1]
  /\ UNCHANGED <<buf, view, invocations, returned, renders>>
  /\ UNCHANGED <<buildVars, openVars, convVars, callerHandle, cbBuilt, devStatus,
                 everResumed, poisoned, contexts, ctlpc>>
  /\ UNCHANGED <<handleVars, pending>>

\* lib.rs:137  engine.render(buf)
CallbackRender_Skipped(d) ==
  /\ cbpc[d] = "locked"
  /\ renders' = [renders EXCEPT ![d] = @ + 1]
  /\ cbpc' = [cbpc EXCEPT ![d] = "rendered"]
  /\ UNCHANGED <<buf, view, invocations, returned, acquisitions>>
  /\ UNCHANGED <<buildVars, openVars, convVars, callerHandle, cbBuilt, devStatus,
                 everResumed, lockHolder, poisoned, contexts, ctlpc>>
  /\ UNCHANGED <<handleVars, pending>>

CallbackRender(d) ==
  /\ cbpc[d] = "locked"
  /\ buf' = [buf EXCEPT ![d] = Render(@, view[d], EngineFrameOf(cbEngine[d]))]
  /\ renders' = [renders EXCEPT ![d] = @ + 1]
  /\ cbpc' = [cbpc EXCEPT ![d] = "rendered"]
  /\ UNCHANGED <<view, invocations, returned, acquisitions>>
  /\ UNCHANGED <<buildVars, openVars, convVars, callerHandle, cbBuilt, devStatus,
                 everResumed, lockHolder, poisoned, contexts, ctlpc>>
  /\ UNCHANGED <<handleVars, pending>>

\* lib.rs:138  the guard goes out of scope and the callback returns.
CallbackReturn_GuardLeaked(d) ==
  /\ cbpc[d] = "rendered"
  /\ returned' = [returned EXCEPT ![d] = @ + 1]
  /\ cbpc' = [cbpc EXCEPT ![d] = "idle"]
  /\ UNCHANGED <<buf, view, invocations, renders, acquisitions, lockHolder>>
  /\ UNCHANGED <<buildVars, openVars, convVars, callerHandle, cbBuilt, devStatus,
                 everResumed, poisoned, contexts, ctlpc>>
  /\ UNCHANGED <<handleVars, pending>>

CallbackReturn(d) ==
  /\ cbpc[d] = "rendered"
  /\ lockHolder' = "free"
  /\ returned' = [returned EXCEPT ![d] = @ + 1]
  /\ cbpc' = [cbpc EXCEPT ![d] = "idle"]
  /\ UNCHANGED <<buf, view, invocations, renders, acquisitions>>
  /\ UNCHANGED <<buildVars, openVars, convVars, callerHandle, cbBuilt, devStatus,
                 everResumed, poisoned, contexts, ctlpc>>
  /\ UNCHANGED <<handleVars, pending>>

\* An invocation of d's callback is in progress.
InFlight(d) == cbpc[d] \in {"converted", "locked", "rendered"}

----------------------------------------------------------------------------
(* The caller's side after open returned: lib.rs:21-25, 54-60, examples/basic.rs *)

\* device.resume()
Resume(d) ==
  /\ pending[d] = "none"
  /\ devStatus[d] = "paused"
  /\ d = "opened" => Opened
  /\ devStatus' = [devStatus EXCEPT ![d] = "playing"]
  /\ everResumed' = [everResumed EXCEPT ![d] = TRUE]
  /\ UNCHANGED <<buildVars, openVars, audioVars, convVars, callerHandle, cbBuilt,
                 lockHolder, poisoned, contexts, ctlpc>>
  /\ UNCHANGED <<handleVars, pending>>

\* device.pause() is called; the call waits for a running invocation.
PauseCall(d) ==
  /\ devStatus[d] = "playing"
  /\ pending[d] = "none"
  /\ pending' = [pending EXCEPT ![d] = "pause"]
  /\ UNCHANGED <<buildVars, openVars, audioVars, convVars, callerHandle, cbBuilt,
                 devStatus, everResumed, lockHolder, poisoned, contexts, ctlpc>>
  /\ UNCHANGED handleVars

\* device.pause(): returns once no callback invocation is running.
Pause(d) ==
  /\ pending[d] = "pause"
  /\ ~InFlight(d)
  /\ devStatus' = [devStatus EXCEPT ![d] = "paused"]
  /\ UNCHANGED <<buildVars, openVars, audioVars, convVars, callerHandle, cbBuilt,
                 everResumed, lockHolder, poisoned, contexts, ctlpc>>
  /\ pending' = [pending EXCEPT ![d] = "none"]
  /\ UNCHANGED handleVars

\* The device is dropped: the subsystem is told to shut it down, and the drop
\* waits for a running invocation.
CloseCall(d) ==
  /\ devStatus[d] \in {"paused", "playing"}
  /\ d = "opened" => Opened
  /\ pending[d] = "none"
  /\ pending' = [pending EXCEPT ![d] = "close"]
  /\ UNCHANGED <<buildVars, openVars, audioVars, convVars, callerHandle, cbBuilt,
                 devStatus, everResumed, lockHolder, poisoned, contexts, ctlpc>>
  /\ UNCHANGED handleVars

\* The device is dropped: the subsystem closes it once no invocation is running,
\* and the Callback is dropped with its engine handle.
Close(d) ==
  /\ pending[d] = "close"
  /\ ~InFlight(d)
  /\ devStatus' = [devStatus EXCEPT ![d] = "closed"]
  /\ UNCHANGED <<buildVars, openVars, audioVars, convVars, callerHandle, cbBuilt,
                 everResumed, lockHolder, poisoned, contexts, ctlpc>>
  /\ pending' = [pending EXCEPT ![d] = "none"]
  /\ cbHandle' = [cbHandle EXCEPT ![d] = FALSE]
  /\ strong' = IF cbHandle[d] THEN strong - 1 ELSE strong
  /\ UNCHANGED <<locals, callerEngine, cbEngine>>

\* lib.rs:126-128  Callback::new(Arc::clone(&engine)) given by the caller to a
\* device of their own, which the subsystem opens paused.
AttachCallback ==
  /\ Opened
  /\ callerHandle
  /\ devStatus["attached"] = "none"
  /\ cbBuilt' = [cbBuilt EXCEPT !["attached"] = TRUE]
  /\ devStatus' = [devStatus EXCEPT !["attached"] = "paused"]
  /\ UNCHANGED <<buildVars, openVars, audioVars, convVars, callerHandle,
                 everResumed, lockHolder, poisoned, contexts, ctlpc>>
  /\ cbEngine' = [cbEngine EXCEPT !["attached"] = ArcClone(callerEngine)]
  /\ cbHandle' = [cbHandle EXCEPT !["attached"] = TRUE]
  /\ strong' = StrongAfterClone(strong)
  /\ UNCHANGED <<locals, callerEngine, pending>>

\* The caller drops the engine handle open() returned (no guard is alive).
DropCallerHandle ==
  /\ callerHandle
  /\ ctlpc # "holding"
  /\ callerHandle' = FALSE
  /\ strong' = strong - 1
  /\ UNCHANGED <<buildVars, openVars, audioVars, convVars, cbBuilt, devStatus,
                 everResumed, lockHolder, poisoned, contexts, ctlpc>>
  /\ UNCHANGED <<locals, callerEngine, cbEngine, cbHandle, pending>>

\* engine.lock().unwrap() on the returned handle
CtlLock ==
  /\ Opened
  /\ callerHandle
  /\ ctlpc = "idle"
  /\ lockHolder = "free"
  /\ ~poisoned
  /\ lockHolder' = "ctl"
  /\ ctlpc' = "holding"
  /\ UNCHANGED <<buildVars, openVars, audioVars, convVars, callerHandle, cbBuilt,
                 devStatus, everResumed, poisoned, contexts>>
  /\ UNCHANGED <<handleVars, pending>>

\* .add_context(ctx.clone()) under the guard
CtlAddContext ==
  /\ ctlpc = "holding"
  /\ contexts < MaxContexts
  /\ contexts' = contexts + 1
  /\ UNCHANGED <<buildVars, openVars, audioVars, convVars, callerHandle, cbBuilt,
                 devStatus, everResumed, lockHolder, poisoned, ctlpc>>
  /\ UNCHANGED <<handleVars, pending>>

\* the guard is dropped at the end of the statement
CtlUnlock ==
  /\ ctlpc = "holding"
  /\ lockHolder' = "free"
  /\ ctlpc' = "idle"
  /\ UNCHANGED <<buildVars, openVars, audioVars, convVars, callerHandle, cbBuilt,
                 devStatus, everResumed, poisoned, contexts>>
  /\ UNCHANGED <<handleVars, pending>>

\* the thread panics while it holds the guard: the Mutex is poisoned and released
CtlPanic ==
  /\ ctlpc = "holding"
  /\ lockHolder' = "free"
  /\ poisoned' = TRUE
  /\ ctlpc' = "panicked"
  /\ UNCHANGED <<buildVars, openVars, audioVars, convVars, callerHandle, cbBuilt,
                 devStatus, everResumed, contexts>>
  /\ UNCHANGED <<handleVars, pending>>

----------------------------------------------------------------------------
(* to_tuple_slice called on a slice of the caller's                        *)

\* let v = to_tuple_slice(&mut slice)
ConvCall ==
  /\ convState = "raw"
  /\ LET t == to_tuple_slice(Len(convBuf))
     IN  IF t.panic
           THEN /\ convState' = "panicked"
                /\ UNCHANGED convView
           ELSE /\ convState' = "view"
                /\ convView' = [len |-> t.len]
  /\ UNCHANGED <<convBuf, convPre, convLast>>
  /\ UNCHANGED <<buildVars, openVars, audioVars, callerHandle, cbBuilt, devStatus,
                 everResumed, lockHolder, poisoned, contexts, ctlpc>>
  /\ UNCHANGED <<handleVars, pending>>

\* v[i] = (l, r), for an index inside the view
ConvWrite(i, l, r) ==
  /\ convState \in {"view", "written"}
  /\ i < convView.len
  /\ convPre' = convBuf
  /\ convBuf' = TupleSet(convBuf, i, <<l, r>>)
  /\ convLast' = [i |-> i, l |-> l, r |-> r]
  /\ convState' = "written"
  /\ UNCHANGED convView
  /\ UNCHANGED <<buildVars, openVars, audioVars, callerHandle, cbBuilt, devStatus,
                 everResumed, lockHolder, poisoned, contexts, ctlpc>>
  /\ UNCHANGED <<handleVars, pending>>

----------------------------------------------------------------------------
(* Specifications                                                          *)

InitProgram ==
  /\ debugAssertions \in BOOLEAN
  /\ renderBufferLen \in RenderBufferLens
  /\ openpc = "idle"
  /\ desired = NoDesired
  /\ attempts = 0
  /\ sdlResult = [tag |-> "None", err |-> ""]
  /\ obtained = NoObtained
  /\ panicMsg = ""
  /\ openResult = NoResult
  /\ engineCreated = FALSE
  /\ callerHandle = FALSE
  /\ cbBuilt = [d \in Devices |-> FALSE]
  /\ devStatus = [d \in Devices |-> "none"]
  /\ everResumed = [d \in Devices |-> FALSE]
  /\ cbpc = [d \in Devices |-> "idle"]
  /\ buf = [d \in Devices |-> <<>>]
  /\ view = [d \in Devices |-> [len |-> 0]]
  /\ invocations = [d \in Devices |-> 0]
  /\ returned = [d \in Devices |-> 0]
  /\ renders = [d \in Devices |-> 0]
  /\ acquisitions = [d \in Devices |-> 0]
  /\ lockHolder = "free"
  /\ poisoned = FALSE
  /\ contexts = 0
  /\ ctlpc = "idle"
  /\ convPre = <<>>
  /\ convView = [len |-> 0]
  /\ convState = "raw"
  /\ convLast = [i |-> 0, l |-> 0, r |-> 0]
  /\ strong = 0
  /\ locals = [engine |-> 0, callback_engine |-> 0]
  /\ callerEngine = 0
  /\ cbEngine = [d \in Devices |-> 0]
  /\ cbHandle = [d \in Devices |-> FALSE]
  /\ pending = [d \in Devices |-> "none"]

Init ==
  /\ InitProgram
  /\ convBuf = <<>>

Next ==
  \/ OpenDesiredSpec
  \/ OpenCreateEngine
  \/ \E e \in SdlErrors : OpenPlaybackErr(e)
  \/ \E o \in ObtainedSpecs : OpenPlaybackOk(o)
  \/ OpenClosure
  \/ OpenReturn
  \/ \E d \in Devices : \E n \in 0..MaxBufLen : CallbackEnter(d, n)
  \/ \E d \in Devices : CallbackLock(d)
  \/ \E d \in Devices : CallbackRender(d)
  \/ \E d \in Devices : CallbackReturn(d)
  \/ \E d \in Devices : Resume(d)
  \/ \E d \in Devices : PauseCall(d)
  \/ \E d \in Devices : Pause(d)
  \/ \E d \in Devices : CloseCall(d)
  \/ \E d \in Devices : Close(d)
  \/ AttachCallback
  \/ DropCallerHandle
  \/ CtlLock
  \/ CtlAddContext
  \/ CtlUnlock
  \/ CtlPanic

Spec == Init /\ [][Next]_vars

\* The scheduling the liveness of a callback rests on: an audio thread inside
\* callback() keeps running; a thread waiting for the Mutex gets it if it is
\* free again and again; the control thread does not keep its guard forever.
Fairness ==
  /\ \A d \in Devices :
       /\ SF_vars(CallbackLock(d))
       /\ WF_vars(CallbackRender(d))
       /\ WF_vars(CallbackReturn(d))
  /\ WF_vars(CtlUnlock \/ CtlPanic)

\* The liveness of a callback does not depend on the length the engine asks
\* for: it is checked for the engine whose render buffer holds two frames.
InitLive == Init /\ renderBufferLen = 2

SpecLive == InitLive /\ [][Next]_vars /\ Fairness

\* to_tuple_slice on its own: slices of every length up to the bound.
InitConv ==
  /\ InitProgram
  /\ \E n \in 0..MaxBufLen : convBuf = Stale(n)

NextConv ==
  \/ ConvCall
  \/ \E i \in 0..MaxBufLen : \E l \in SampleVals : \E r \in SampleVals : ConvWrite(i, l, r)

SpecConv == InitConv /\ [][NextConv]_vars

----------------------------------------------------------------------------
(* Properties                                                              *)

\* The descriptor the subsystem was asked for: the three fields of the
\* AudioSpecDesired and the format of Callback::Channel.
DesiredDescriptor ==
  [freq |-> desired.freq[1], channels |-> desired.channels[1],
   format |-> ChannelFormat, samples |-> desired.samples[1]]

\* The subsystem opened the device and reported something else than was asked.
Mismatch == sdlResult.tag = "Ok" /\ obtained # DesiredDescriptor

\* The subsystem opened the device and reported exactly what was asked.
Match == sdlResult.tag = "Ok" /\ obtained = DesiredDescriptor

\* d's audio thread holds the engine lock.
HoldsLock(d) == cbpc[d] \in {"locked", "rendered"}

\* The threads that are inside a critical section of the engine Mutex.
Holders ==
  {d \in Devices : HoldsLock(d)} \cup (IF ctlpc = "holding" THEN {"ctl"} ELSE {})

\* C1: when the obtained descriptor differs from the desired one in any of the
\* four fields, the Callback of open() is never constructed, open() returns no
\* success value (it ends in the closure's panic), and that device never runs
\* a callback or a render.
C1_MismatchNeverProceeds ==
  Mismatch =>
    /\ openpc \in {"closure", "panicked"}
    /\ ~cbBuilt["opened"]
    /\ openResult.tag = "None"
    /\ ~callerHandle
    /\ invocations["opened"] = 0
    /\ renders["opened"] = 0

\* C1 witness: the closure has run on a descriptor that differs from the
\* desired one in the channel count alone, and open() has panicked.
C1_Witness ==
  /\ openpc = "panicked"
  /\ Mismatch
  /\ obtained.channels # DesiredDescriptor.channels
  /\ [obtained EXCEPT !.channels = 2] = DesiredDescriptor
  /\ panicMsg = "Invalid number of channels"

\* C2: when the subsystem opens the device and the obtained descriptor equals
\* the desired one in every field, open() does not panic, the closure builds
\* the Callback, and open() returns Ok with the engine handle and the device.
C2_MatchOpens ==
  Match =>
    /\ openpc \in {"closure", "built", "returned"}
    /\ panicMsg = ""
    /\ openpc \in {"built", "returned"} => cbBuilt["opened"]
    /\ openpc = "returned" =>
         /\ openResult = [tag |-> "Ok", err |-> "", engine |-> TRUE, device |-> TRUE]
         /\ callerEngine = locals.engine
         /\ callerEngine = WithoutDevice

\* C2 witness: open() has returned Ok on a matching descriptor.
C2_Witness ==
  /\ Match
  /\ openpc = "returned"
  /\ openResult.tag = "Ok"
  /\ cbBuilt["opened"]

\* C3: when render_buffer_len() exceeds u16::MAX, open() panics inside
\* desired_spec ("Audio buffer too large") before the engine is created, before
\* any device-open attempt and before any Callback is constructed.
C3_TooLargeFailsFirst ==
  (renderBufferLen > U16_MAX /\ openpc # "idle") =>
    /\ openpc = "panicked"
    /\ panicMsg = "Audio buffer too large"
    /\ attempts = 0
    /\ sdlResult.tag = "None"
    /\ ~engineCreated
    /\ \A d \in Devices : ~cbBuilt[d] /\ devStatus[d] = "none"

\* C3 witness: open() was called with a render buffer length of u16::MAX + 1
\* and has panicked.
C3_Witness ==
  /\ renderBufferLen = U16_MAX + 1
  /\ openpc = "panicked"

\* C4: when the subsystem's open fails, open() returns Err with that same
\* error, after exactly one attempt, with no Callback constructed and no
\* engine handle or device handed to the caller; no call makes a second attempt.
C4_ErrorSurfacesOnce ==
  /\ attempts <= 1
  /\ sdlResult.tag = "Err" =>
       /\ attempts = 1
       /\ openpc \in {"sdl_err", "returned"}
       /\ panicMsg = ""
       /\ ~cbBuilt["opened"]
       /\ openpc = "returned" =>
            /\ openResult.tag = "Err"
            /\ openResult.err = sdlResult.err
            /\ ~openResult.engine
            /\ ~openResult.device
            /\ ~callerHandle

\* C4 witness: open() has returned the subsystem's error.
C4_Witness ==
  /\ openpc = "returned"
  /\ sdlResult = [tag |-> "Err", err |-> "Audio device busy"]
  /\ openResult.tag = "Err"

\* C5: at most one thread is inside the engine lock at any time, two devices
\* on one engine included; an audio thread holds the lock exactly from its
\* acquisition to the return of the invocation, renders only while it holds
\* it, and has acquired it once per invocation that got that far.
C5_LockSerializes ==
  /\ Cardinality(Holders) <= 1
  /\ Holders = (IF lockHolder = "free" THEN {} ELSE {lockHolder})
  /\ \A d \in Devices :
       /\ acquisitions[d] = returned[d] + (IF HoldsLock(d) THEN 1 ELSE 0)
       /\ renders[d] = returned[d] + (IF cbpc[d] = "rendered" THEN 1 ELSE 0)
       /\ cbpc[d] \in {"idle", "converted", "panicked"} => lockHolder # d

\* C5 witness: both devices are active on the one engine; one callback is
\* rendering under the lock while the other waits for it, after the control
\* thread has used the lock as well.
C5_Witness ==
  /\ devStatus["opened"] = "playing"
  /\ devStatus["attached"] = "playing"
  /\ cbpc["opened"] = "rendered"
  /\ cbpc["attached"] = "converted"
  /\ contexts > 0
  /\ returned["attached"] > 0

\* The scalars of d's buffer that hold what the buffer was delivered with.
StaleIndices(d) == {j \in 1..Len(buf[d]) : buf[d][j] = Stale(Len(buf[d]))[j]}

\* C6: every callback invocation that gets to return has made exactly one
\* engine render, before it returns, and that render covered the whole
\* delivered buffer: the renders of a device number its returned invocations
\* (plus the one in progress), and after the render no scalar of the buffer
\* is left as delivered.
C6_OneRenderOverWholeBuffer ==
  \A d \in Devices :
    /\ renders[d] = returned[d] + (IF cbpc[d] = "rendered" THEN 1 ELSE 0)
    /\ cbpc[d] = "rendered" => StaleIndices(d) = {}

\* C7: for an even-length slice of N scalars, to_tuple_slice gives a view of
\* exactly N/2 pairs; pair i reads (raw[2i], raw[2i+1]); a write of (l, r) at
\* pair i sets raw[2i] = l and raw[2i+1] = r and changes no other scalar (nor
\* the length).
C7_PairsOverSameStorage ==
  (convState \in {"view", "written"} /\ Len(convBuf) % 2 = 0) =>
    /\ 2 * convView.len = Len(convBuf)
    /\ convState = "view" =>
         \A i \in 0..(convView.len - 1) :
           TupleGet(convBuf, i) = <<100 + (2 * i + 1), 100 + (2 * i + 2)>>
    /\ convState = "written" =>
         /\ Len(convBuf) = Len(convPre)
         /\ convBuf[2 * convLast.i + 1] = convLast.l
         /\ convBuf[2 * convLast.i + 2] = convLast.r
         /\ TupleGet(convBuf, convLast.i) = <<convLast.l, convLast.r>>
         /\ \A j \in 1..Len(convBuf) :
              j \notin {2 * convLast.i + 1, 2 * convLast.i + 2} => convBuf[j] = convPre[j]

\* C7 witness: (1, 2) has been written at pair 1 of the view of a four-scalar
\* slice whose pair 0 is still as delivered.
C7_Witness ==
  /\ convState = "written"
  /\ Len(convBuf) = 4
  /\ convView.len = 2
  /\ convLast = [i |-> 1, l |-> 1, r |-> 2]
  /\ convBuf = <<101, 102, 1, 2>>

\* C8: to_tuple_slice panics on every slice with an odd number of elements; no
\* view of an odd-length slice is ever returned.
C8_OddAlwaysPanics ==
  Len(convBuf) % 2 = 1 => convState \in {"raw", "panicked"}

\* C9: the device open() returns is paused: until the caller's first resume of
\* it, its callback is not invoked, so its audio thread neither renders nor
\* takes the engine lock.
C9_PausedUntilResume ==
  ~everResumed["opened"] =>
    /\ devStatus["opened"] \in {"none", "paused", "closed"}
    /\ Opened /\ devStatus["opened"] # "closed" => devStatus["opened"] = "paused"
    /\ invocations["opened"] = 0
    /\ cbpc["opened"] = "idle"
    /\ renders["opened"] = 0
    /\ acquisitions["opened"] = 0
    /\ lockHolder # "opened"

\* C9 witness: open() has returned, its device has not been resumed and is
\* paused, while the caller's other device has already run a callback.
C9_Witness ==
  /\ Opened
  /\ ~everResumed["opened"]
  /\ devStatus["opened"] = "paused"
  /\ returned["attached"] > 0

\* C10: whenever desired_spec returns, the descriptor is the same: freq =
\* Some(SAMPLE_RATE) = Some(44100), channels = Some(2), samples =
\* Some(render_buffer_len()); the format asked of the device is that of
\* Callback::Channel, 32-bit float, the one the closure checks for.
C10_DesiredSpecFixed ==
  (openpc # "idle" /\ panicMsg # "Audio buffer too large") =>
    /\ desired = [freq |-> Some(44100), channels |-> Some(2),
                  samples |-> Some(renderBufferLen)]
    /\ desired.freq = Some(SAMPLE_RATE)
    /\ DesiredDescriptor.format = "f32_sys"
    /\ DesiredDescriptor.format = F32Sys

\* C10 witness: desired_spec has returned for the largest length that fits.
C10_Witness ==
  /\ openpc = "desired"
  /\ renderBufferLen = U16_MAX
  /\ desired.samples = Some(U16_MAX)

\* C11: on the engine as open() returned it (no context attached, Mutex not
\* poisoned), an invocation on an even-length buffer does not panic, and when
\* its render is done every scalar of the buffer is zero, whatever it held
\* when delivered; this holds for each invocation of a sequence.
C11_FreshEngineRendersSilence ==
  \A d \in Devices :
    /\ (cbpc[d] = "rendered" /\ contexts = 0 /\ Len(buf[d]) % 2 = 0) =>
         \A j \in 1..Len(buf[d]) : buf[d][j] = 0
    /\ (cbpc[d] = "panicked" /\ Len(buf[d]) % 2 = 0) => poisoned

\* C11 witness: the second invocation on the device of open() has rendered its
\* four-scalar buffer to silence, no context attached.
C11_Witness ==
  /\ contexts = 0
  /\ ~poisoned
  /\ returned["opened"] = 1
  /\ cbpc["opened"] = "rendered"
  /\ buf["opened"] = <<0, 0, 0, 0>>

\* C12: the handle open() returns and the handle inside the Callback refer to
\* the same engine (and so does a Callback the caller builds on a clone of the
\* returned handle): a render made under the lock writes the frame of the
\* contexts attached through the returned handle up to that acquisition.
C12_OneSharedEngine ==
  /\ Opened => (callerEngine # 0 /\ cbEngine["opened"] = callerEngine)
  /\ \A d \in Devices :
       /\ cbBuilt[d] => cbEngine[d] = locals.engine
       /\ (cbpc[d] = "rendered" /\ callerEngine # 0) =>
            \A i \in 0..(view[d].len - 1) : TupleGet(buf[d], i) = EngineFrame

\* C12 witness: the control thread attached a context through the returned
\* handle and released the lock; the callback of open()'s device then rendered
\* that context's frame.
C12_Witness ==
  /\ Opened
  /\ contexts = 1
  /\ ctlpc = "idle"
  /\ cbpc["opened"] = "rendered"
  /\ buf["opened"] = <<1, 2, 1, 2>>

\* The engine handles alive: the caller's (inside open(), the local `engine`),
\* the clone held by the closure until it is consumed, and one per live Callback.
HandlesHeld ==
  (IF callerHandle \/ openpc \in {"engine", "closure", "sdl_err", "built"} THEN 1 ELSE 0)
  + (IF openpc \in {"engine", "closure"} THEN 1 ELSE 0)
  + Cardinality({d \in Devices : cbHandle[d]})

\* C14: the engine lives exactly as long as a handle to it does: its strong
\* count is the number of live handles, so it is released only when the last
\* one goes; a callback in progress and a guard of the control thread always
\* have a live engine, whichever of the other handles has been dropped.
C14_EngineOutlivesHandles ==
  /\ strong = HandlesHeld
  /\ EngineFreed <=> (engineCreated /\ HandlesHeld = 0)
  /\ \A d \in Devices :
       /\ InFlight(d) => (cbHandle[d] /\ ~EngineFreed)
       /\ (cbHandle[d] /\ devStatus[d] = "playing") => ~EngineFreed
  /\ callerHandle => ~EngineFreed
  /\ ctlpc = "holding" => (callerHandle /\ ~EngineFreed)

\* C14 witness: the caller dropped its handle while the device was active, and
\* the callback has since locked and rendered; the Callback's handle is the
\* only one left.
C14_Witness ==
  /\ ~callerHandle
  /\ Opened
  /\ strong = 1
  /\ cbHandle["opened"]
  /\ cbpc["opened"] = "rendered"
  /\ returned["opened"] = 1

\* The closure of open() has run on what the subsystem obtained.
ClosureRan == sdlResult.tag = "Ok" /\ openpc \in {"panicked", "built", "returned"}

\* C15: the integer conversions of the negotiation neither accept a wrong value
\* nor change the request: the rate asked for is SAMPLE_RATE exactly; for every
\* obtained i32 rate (negative ones included, compared as u32) the closure
\* rejects with "Invalid sample rate" exactly when the rate differs from
\* SAMPLE_RATE as a number; for every obtained u16 frame count it rejects with
\* "Invalid buffer size" exactly when the count differs from
\* render_buffer_len(); what it accepts has both values equal.
C15_ConversionsExact ==
  /\ desired.freq # None => desired.freq = Some(SAMPLE_RATE)
  /\ \A x \in ObtainedFreqs :
       /\ U32AsI32(I32AsU32(x)) = x
       /\ (I32AsU32(x) = SampleRateU32) <=> (x = SAMPLE_RATE)
  /\ ClosureRan =>
       /\ (panicMsg = "Invalid sample rate") <=> (obtained.freq # SAMPLE_RATE)
       /\ (obtained.freq = SAMPLE_RATE /\ obtained.channels = 2
             /\ obtained.format = F32Sys) =>
            ((panicMsg = "Invalid buffer size") <=> (obtained.samples # renderBufferLen))
       /\ cbBuilt["opened"] =>
            (obtained.freq = SAMPLE_RATE /\ obtained.samples = renderBufferLen)
       /\ (obtained.freq = desired.freq[1] /\ obtained.samples = desired.samples[1]
             /\ obtained.channels = 2 /\ obtained.format = F32Sys) =>
            (panicMsg = "" /\ cbBuilt["opened"])

\* C15 witness: the closure has rejected, for its rate alone, a descriptor whose
\* negative rate has the bits of SAMPLE_RATE below the sign bit.
C15_Witness ==
  /\ ClosureRan
  /\ obtained.freq = SAMPLE_RATE - I32_MAX - 1
  /\ [obtained EXCEPT !.freq = SAMPLE_RATE] = DesiredDescriptor
  /\ openpc = "panicked"
  /\ panicMsg = "Invalid sample rate"

\* C16: once a thread has panicked under its guard and the Mutex is poisoned,
\* no callback holds the lock or gets it, no render is made and no invocation
\* returns; an invocation that reaches the acquisition panics there, and the
\* buffer of a panicked invocation is as the subsystem delivered it.
C16_NoRenderThroughPoison ==
  /\ [](poisoned => \A d \in Devices : ~HoldsLock(d))
  /\ [](\A d \in Devices :
          cbpc[d] = "panicked" =>
            (buf[d] = Stale(Len(buf[d])) /\ renders[d] = returned[d]))
  /\ [][poisoned =>
          \A d \in Devices :
            /\ renders'[d] = renders[d]
            /\ acquisitions'[d] = acquisitions[d]
            /\ returned'[d] = returned[d]
            /\ buf'[d] # buf[d] =>
                 (invocations'[d] = invocations[d] + 1 /\ buf'[d] = Stale(Len(buf'[d])))
            /\ (cbpc[d] = "converted" /\ cbpc'[d] # "converted") =>
                 cbpc'[d] = "panicked"]_vars

\* C16 witness: after one invocation that rendered and returned, the control
\* thread panicked under its guard, and the next invocation of the same
\* callback, on an even-length buffer, has panicked at the acquisition.
C16_Witness ==
  /\ poisoned
  /\ ctlpc = "panicked"
  /\ returned["opened"] = 1
  /\ invocations["opened"] = 2
  /\ cbpc["opened"] = "panicked"
  /\ Len(buf["opened"]) = 2 * renderBufferLen
  /\ buf["opened"] = Stale(Len(buf["opened"]))

\* C17: in an invocation the buffer is converted (odd-length check included)
\* before the engine lock is asked for: the lock is acquired only by an
\* invocation whose conversion is done; a failure of the conversion check
\* happens while the audio thread does not hold the lock, and leaves the lock
\* as it was, neither held by that thread nor poisoned.
C17_ConversionBeforeLock ==
  /\ [](\A d \in Devices :
          /\ HoldsLock(d) =>
               (~OddLengthPanics(Len(buf[d])) /\ view[d].len = TupleSliceLen(Len(buf[d])))
          /\ cbpc[d] = "panicked" => lockHolder # d)
  /\ [](poisoned => ctlpc = "panicked")
  /\ [][\A d \in Devices :
          /\ acquisitions'[d] # acquisitions[d] =>
               (cbpc[d] = "converted" /\ invocations'[d] = invocations[d])
          /\ (invocations'[d] # invocations[d] /\ cbpc'[d] = "panicked") =>
               /\ OddLengthPanics(Len(buf'[d]))
               /\ lockHolder # d
               /\ lockHolder' = lockHolder
               /\ poisoned' = poisoned
               /\ acquisitions'[d] = acquisitions[d]]_vars

\* C17 witness: under debug assertions an invocation on a buffer of three
\* scalars has failed the conversion check while the control thread holds the
\* engine lock, and the Mutex is not poisoned.
C17_Witness ==
  /\ debugAssertions
  /\ cbpc["attached"] = "panicked"
  /\ Len(buf["attached"]) = 3
  /\ acquisitions["attached"] = returned["attached"]
  /\ lockHolder = "ctl"
  /\ ~poisoned

\* Some thread can take a step that moves the engine lock on while d's
\* invocation is in progress: d itself, the control thread's release, or the
\* other device's callback under the lock.
CanProgress(d) ==
  \/ ENABLED CallbackLock(d)
  \/ ENABLED CallbackRender(d)
  \/ ENABLED CallbackReturn(d)
  \/ ENABLED CtlUnlock
  \/ \E e \in Devices \ {d} : ENABLED CallbackRender(e) \/ ENABLED CallbackReturn(e)

====
